---------------------------- MODULE Spec2Model ----------------------------
(***************************************************************************)
(* ExtendedModelGalaxy (src/src/glass_niriss/grism/specgen.py): the        *)
(* update / _calculate_full_spectrum pair, as a state machine over one     *)
(* synthesizer instance.                                                   *)
(*                                                                         *)
(* Numbers.  Python floats are carried as exact rationals <<n, d>> with    *)
(* d > 0 and gcd(n, d) = 1; arrays are sequences of rationals.  A value    *)
(* that Python holds as None is the empty sequence, a value that is        *)
(* present is a one-element sequence (rm_line, spec_wavs, filt_list,       *)
(* index_list).  The instance is the record self; an attribute that was    *)
(* never assigned is a field that self does not have.                      *)
(*                                                                         *)
(* Collaborators.  The bagpipes objects the class calls (sfh, stellar,     *)
(* nebular, dust_atten, dust_emission, igm, agn, the resampler, the        *)
(* photometry, UVJ and index routines) are deterministic functions of      *)
(* their arguments; each is given here by a small table on a five-point    *)
(* wavelength grid, at the line of specgen.py that calls it.               *)
(***************************************************************************)
EXTENDS Integers, Sequences, FiniteSets, TLC

VARIABLES self, args, raised, warned, loc

vars == <<self, args, raised, warned, loc>>

---------------------------------------------------------------------------
(* Exact rational arithmetic (numpy float arithmetic on the values used).  *)

Abs(x) == IF x < 0 THEN -x ELSE x

RECURSIVE GCD(_, _)
GCD(a, b) == IF b = 0 THEN a ELSE GCD(b, a % b)

Norm(n, d) ==
    LET g == GCD(Abs(n), Abs(d))
        s == IF d < 0 THEN -1 ELSE 1
    IN  <<s * (n \div g), s * (d \div g)>>

Q(n) == <<n, 1>>

QZero == Q(0)

QOne == Q(1)

QAdd(a, b) ==
    LET g == GCD(a[2], b[2])
    IN  Norm(a[1] * (b[2] \div g) + b[1] * (a[2] \div g), (a[2] \div g) * b[2])

QNeg(a) == <<-a[1], a[2]>>

QSub(a, b) == QAdd(a, QNeg(b))

QMul(a, b) ==
    LET g1 == GCD(Abs(a[1]), b[2])
        g2 == GCD(Abs(b[1]), a[2])
    IN  Norm((a[1] \div g1) * (b[1] \div g2), (a[2] \div g2) * (b[2] \div g1))

QInv(a) == IF a[1] < 0 THEN <<-a[2], -a[1]>> ELSE <<a[2], a[1]>>

QDiv(a, b) == QMul(a, QInv(b))

QLess(a, b) == a[1] * b[2] < b[1] * a[2]

QAbs(a) == <<Abs(a[1]), a[2]>>

(* An array built index by index, held as a sequence of its values.        *)
Arr(f) == f \o <<>>

(* Elementwise array arithmetic (numpy broadcasting on equal shapes).      *)
VAdd(u, v) == Arr([i \in DOMAIN u |-> QAdd(u[i], v[i])])

VSub(u, v) == Arr([i \in DOMAIN u |-> QSub(u[i], v[i])])

VMul(u, v) == Arr([i \in DOMAIN u |-> QMul(u[i], v[i])])

VScale(c, u) == Arr([i \in DOMAIN u |-> QMul(c, u[i])])

VDivS(u, c) == Arr([i \in DOMAIN u |-> QDiv(u[i], c)])

RECURSIVE QSum(_, _)
QSum(u, k) == IF k = 0 THEN QZero ELSE QAdd(QSum(u, k - 1), u[k])

(* np.trapz(y, x=x): sum of (x[i+1] - x[i]) * (y[i] + y[i+1]) / 2.         *)
trapz(y, x) ==
    QSum(Arr([i \in 1..(Len(y) - 1) |->
            QDiv(QMul(Q(x[i + 1] - x[i]), QAdd(y[i], y[i + 1])), Q(2))]),
         Len(y) - 1)

(* np.interp(x, xp, fp, left=0, right=0) for one x; xp increasing.         *)
interp(x, xp, fp) ==
    IF QLess(x, xp[1]) \/ QLess(xp[Len(xp)], x) THEN QZero
    ELSE IF x = xp[Len(xp)] THEN fp[Len(xp)]
    ELSE LET k == CHOOSE j \in 1..(Len(xp) - 1) :
                    ~QLess(x, xp[j]) /\ QLess(x, xp[j + 1])
             slope == QDiv(QSub(fp[k + 1], fp[k]), QSub(xp[k + 1], xp[k]))
         IN  QAdd(fp[k], QMul(slope, QSub(x, xp[k])))

(* 10 ** (-e) for a rational e that is a whole number >= 0.                *)
RECURSIVE Pow10(_)
Pow10(k) == IF k = 0 THEN 1 ELSE 10 * Pow10(k - 1)

TenToMinus(e) == <<1, Pow10(e[1])>>


---------------------------------------------------------------------------
(* Python containers.                                                      *)

None == <<>>

Some(x) == <<x>>

Range(f) == {f[i] : i \in DOMAIN f}

(* obj.key = v, or d[key] = v: the attribute is created when missing.      *)
SetAttr(obj, key, v) == (key :> v) @@ obj

Has(d, key) == key \in DOMAIN d

(* d.get(key, default)                                                     *)
Get(d, key, default) == IF key \in DOMAIN d THEN d[key] ELSE default

(* A local variable: With(v, LAMBDA x : e) is e with x bound to the value  *)
(* v, computed once, as an assignment followed by its uses is.             *)
With(v, Body(_)) == Body(v)

---------------------------------------------------------------------------
(* The collaborators' tables: the internal wavelength grid and what the    *)
(* bagpipes objects return on it.                                          *)

(* self.wavelengths, in Angstrom; fixed for the life of the instance.      *)
wavelengths == <<900, 908, 920, 940, 970>>

NGrid == Len(wavelengths)

QWavelengths == Arr([i \in 1..NGrid |-> Q(wavelengths[i])])

(* config.line_names and config.line_wavs.                                 *)
line_names == <<"L1", "L2", "L3", "L4">>

line_wavs == <<901, 914, 921, 969>>

NLines == Len(line_names)

(* self.sfh.update(model_components): the chemical-enrichment grid is a    *)
(* function of the star-formation component, and the history is            *)
(* unphysical when its age exceeds the age of the universe at redshift.    *)
AgeOfUniverse == <<13, 6, 3, 2, 1>>

SfhGridOf(mc) ==
    [age |-> mc.exponential.age, metallicity |-> mc.exponential.metallicity]

SfhUnphysical(mc) == mc.exponential.age > AgeOfUniverse[mc.redshift + 1]

(* self.stellar.spectrum(grid, t_bc): (spectrum_bc, spectrum).             *)
StellarYoung(grid, t_bc) ==
    LET shape == <<6, 5, 4, 3, 2>>
    IN  Arr([i \in 1..NGrid |-> QMul(QMul(t_bc, Q(100)), Q(shape[i] * grid.metallicity))])

StellarOld(grid, t_bc) ==
    LET shape == <<1, 1, 2, 3, 4>>
    IN  Arr([i \in 1..NGrid |-> QSub(Q(shape[i] * grid.age * 2), QMul(t_bc, Q(100)))])

(* ndarray.argmin(): the first index of the least element.                 *)
argmin(dist) ==
    CHOOSE i \in DOMAIN dist :
        /\ \A j \in DOMAIN dist : ~QLess(dist[j], dist[i])
        /\ \A j \in 1..(i - 1) : QLess(dist[i], dist[j])

(* np.abs(self.wavelengths - w).argmin()                                   *)
NearestIndex(w) ==
    argmin(Arr([i \in 1..NGrid |-> QAbs(QSub(QWavelengths[i], w))]))

BinWidth(i) ==
    IF i = 1 THEN Q(wavelengths[2] - wavelengths[1])
    ELSE IF i = NGrid THEN Q(wavelengths[NGrid] - wavelengths[NGrid - 1])
    ELSE QDiv(Q(wavelengths[i + 1] - wavelengths[i - 1]), Q(2))

(* self.nebular.line_fluxes(grid, t_bc, logU): one flux per line.          *)
NebularLineFluxes(grid, t_bc, logU) ==
    LET shape == <<2, 3, 4, 6>>
    IN  Arr([k \in 1..NLines |->
            QMul(QMul(t_bc, Q(100)), Q(shape[k] * (logU + 5) * grid.metallicity))])

(* self.nebular.spectrum(grid, t_bc, logU): nebular continuum plus every   *)
(* line spread over the bin nearest to its rest wavelength.                *)
NebularSpectrum(grid, t_bc, logU) ==
    With(NebularLineFluxes(grid, t_bc, logU), LAMBDA em :
        Arr([i \in 1..NGrid |->
            QAdd(Q(<<0, 0, 1, 1, 1>>[i] * grid.metallicity),
                 QSum(Arr([k \in 1..NLines |->
                         IF NearestIndex(Q(line_wavs[k])) = i
                         THEN QDiv(em[k], BinWidth(i)) ELSE QZero]), NLines))]))

(* self.dust_atten.A_cont and .A_line after dust_atten.update.             *)
A_cont == Arr([i \in 1..NGrid |-> Q(<<1, 1, 1, 0, 0>>[i])])

A_line == Arr([k \in 1..NLines |-> Q(<<1, 1, 0, 0>>[k])])

(* self.dust_emission.spectrum(qpah, umin, gamma): a template of unit      *)
(* integral over the grid.                                                 *)
DustEmissionSpectrum(qpah, umin, gamma) ==
    With(<<QZero, QZero, QZero, qpah, QAdd(umin, QMul(Q(100), gamma))>>,
         LAMBDA raw : VDivS(raw, trapz(raw, wavelengths)))

(* self.igm.trans(redshift).                                               *)
IgmTrans(z) == Arr([i \in 1..NGrid |-> IF i <= z THEN <<1, 2>> ELSE QOne])

(* utils.z_array and utils.ldist_at_z (Mpc).                               *)
z_array == <<Q(0), Q(2), Q(4)>>

ldist_at_z == <<Q(0), Q(2), Q(6)>>

(* self.agn.update(param); self.agn.spectrum.                              *)
AgnSpectrum(param) ==
    LET shape == <<1, 1, 1, 2, 2>>
    IN  Arr([i \in 1..NGrid |-> Q(shape[i] * param.f5100A)])

---------------------------------------------------------------------------
(* _calculate_full_spectrum, stage by stage.                               *)

(* BirthCloudAge with 0.02 as the value used when the key is missing.      *)
BirthCloudAge_OtherDefault(model_comp) ==
    IF Has(model_comp, "t_bc") THEN model_comp.t_bc ELSE <<1, 50>>

(* Lines 215-217: the birth-cloud age, 0.01 unless the key is present.     *)
BirthCloudAge(model_comp) ==
    IF Has(model_comp, "t_bc") THEN model_comp.t_bc ELSE <<1, 100>>

(* Lines 225-233: the grid the nebular model is run on.  With a nebular    *)
(* metallicity every dict component of a deep copy gets that metallicity   *)
(* and neb_sfh is updated with the copy.                                   *)
NebComp(model_comp) ==
    [comp \in DOMAIN model_comp |->
        IF comp \in {"redshift", "t_bc"} THEN model_comp[comp]
        ELSE SetAttr(model_comp[comp], "metallicity",
                     model_comp.nebular.metallicity)]

NebularGrid(model_comp) ==
    IF Has(model_comp.nebular, "metallicity")
    THEN SfhGridOf(NebComp(model_comp))
    ELSE SfhGridOf(model_comp)

(* Lines 248: np.argwhere(config.line_names == rm), the matching indices.  *)
LineIndices(rm) == {k \in 1..NLines : line_names[k] = rm}

(* Lines 250-252: the line's wavelength moved by velshift (km/s).          *)
ShiftedLineWav(k, model_comp) ==
    QMul(Q(line_wavs[k]),
         QAdd(QOne, QDiv(Q(Get(model_comp.nebular, "velshift", 0)),
                         Q(3 * Pow10(5)))))

(* RemoveLine with the distance between the two neighbours as the width,   *)
(* not half of it.                                                         *)
RemoveLine_FullWidth(spectrum_bc, em_lines, rm, model_comp) ==
    With(CHOOSE j \in LineIndices(rm) : TRUE, LAMBDA k :
    With(NearestIndex(ShiftedLineWav(k, model_comp)), LAMBDA ind :
        IF ind # 1 /\ ind # NGrid
        THEN With(Q(wavelengths[ind + 1] - wavelengths[ind - 1]), LAMBDA width :
                 [spectrum_bc EXCEPT ![ind] = QSub(@, QDiv(em_lines[k], width))])
        ELSE spectrum_bc))

(* Lines 253-258: one pass of the loop, for a name the table holds.        *)
RemoveLine(spectrum_bc, em_lines, rm, model_comp) ==
    With(CHOOSE j \in LineIndices(rm) : TRUE, LAMBDA k :
    With(NearestIndex(ShiftedLineWav(k, model_comp)), LAMBDA ind :
        IF ind # 1 /\ ind # NGrid
        THEN With(QDiv(Q(wavelengths[ind + 1] - wavelengths[ind - 1]), Q(2)),
                  LAMBDA width :
                 [spectrum_bc EXCEPT ![ind] = QSub(@, QDiv(em_lines[k], width))])
        ELSE spectrum_bc))

(* Lines 247-258: the loop over rm_line, names[1..n] done in order.        *)
RECURSIVE RemoveLines(_, _, _, _, _)
RemoveLines(spectrum_bc, em_lines, names, n, model_comp) ==
    IF n = 0 THEN spectrum_bc
    ELSE RemoveLine(RemoveLines(spectrum_bc, em_lines, names, n - 1, model_comp),
                    em_lines, names[n], model_comp)

(* Line 253: argmin of an empty array raises ValueError, which is what a   *)
(* name missing from config.line_names leads to.                           *)
RemovalRaises(rm_line) ==
    /\ rm_line # None
    /\ \E n \in DOMAIN rm_line[1] : LineIndices(rm_line[1][n]) = {}

(* NebularEnabled without the test of cont_only.                           *)
NebularEnabled_IgnoresContOnly(s, cont_only) == s.nebular

(* Line 222: whether the nebular stage runs.                               *)
NebularEnabled(s, cont_only) == s.nebular /\ ~cont_only

(* Lines 219-258: stellar spectra, nebular emission and line removal.      *)
NebularStage(s, model_comp, cont_only, rm_line) ==
    With(BirthCloudAge(model_comp), LAMBDA t_bc :
    With(StellarYoung(SfhGridOf(model_comp), t_bc), LAMBDA bc0 :
    With(StellarOld(SfhGridOf(model_comp), t_bc), LAMBDA sp0 :
    With(Arr([k \in 1..NLines |-> QZero]), LAMBDA em0 :
        IF NebularEnabled(s, cont_only)
        THEN With(NebularGrid(model_comp), LAMBDA grid :
             With(model_comp.nebular.logU, LAMBDA logU :
             With(VAdd(em0, NebularLineFluxes(grid, t_bc, logU)), LAMBDA em1 :
             With(Arr([i \in 1..NGrid |->
                      IF wavelengths[i] < 912 THEN QZero ELSE bc0[i]]),
                  LAMBDA bc1 :
             With(VAdd(bc1, NebularSpectrum(grid, t_bc, logU)), LAMBDA bc2 :
             With(IF rm_line # None /\ ~RemovalRaises(rm_line)
                  THEN RemoveLines(bc2, em1, rm_line[1],
                                   Len(rm_line[1]), model_comp)
                  ELSE bc2, LAMBDA bc3 :
                 [raises |-> RemovalRaises(rm_line), ran |-> TRUE,
                  stellar_bc |-> bc0, spectrum |-> sp0, em_lines |-> em1,
                  bc_nebular |-> bc2, spectrum_bc |-> bc3]))))))
        ELSE [raises |-> FALSE, ran |-> FALSE,
              stellar_bc |-> bc0, spectrum |-> sp0, em_lines |-> em0,
              bc_nebular |-> bc0, spectrum_bc |-> bc0]))))

(* Lines 265-275: the extra birth-cloud attenuation, applied when the key  *)
(* "eta" is present; the flux it removes.                                  *)
BirthCloudAttenuated(spectrum_bc, dust) ==
    IF Has(dust, "eta")
    THEN With(QMul(QSub(dust.eta, QOne), dust.Av), LAMBDA bc_Av_reduced :
         With(Arr([i \in 1..NGrid |->
                 TenToMinus(QDiv(QMul(bc_Av_reduced, A_cont[i]), <<5, 2>>))]),
              LAMBDA bc_trans_red :
             VMul(spectrum_bc, bc_trans_red)))
    ELSE spectrum_bc

(* BirthCloudLostFlux with the accumulation into dust_flux left out.        *)
BirthCloudLostFlux_Dropped(spectrum_bc, spectrum_bc_dust, dust) == QZero

(* Lines 262, 271-273: what the birth-cloud stage adds to dust_flux.       *)
BirthCloudLostFlux(spectrum_bc, spectrum_bc_dust, dust) ==
    IF Has(dust, "eta")
    THEN trapz(VSub(spectrum_bc, spectrum_bc_dust), wavelengths)
    ELSE QZero

(* Lines 278-279: the attenuation of the line fluxes.                      *)
LinesAttenuated(em_lines, dust) ==
    With(IF Has(dust, "eta") THEN dust.eta ELSE QOne, LAMBDA eta :
    With(QMul(eta, dust.Av), LAMBDA bc_Av :
        Arr([k \in 1..NLines |->
            QMul(em_lines[k],
                 TenToMinus(QDiv(QMul(bc_Av, A_line[k]), <<5, 2>>)))])))

(* Lines 293-303: the dust emission template at the three parameters.      *)
DustTemplate(dust) ==
    DustEmissionSpectrum(IF Has(dust, "qpah") THEN dust.qpah ELSE Q(2),
                         IF Has(dust, "umin") THEN dust.umin ELSE Q(1),
                         IF Has(dust, "gamma") THEN dust.gamma ELSE <<1, 100>>)

(* Lines 260-303: both attenuation stages and the re-emission.             *)
DustStage(s, model_comp, neb) ==
    IF s.dust_atten
    THEN With(model_comp.dust, LAMBDA dust :
         With(BirthCloudAttenuated(neb.spectrum_bc, dust), LAMBDA bc_dust :
         With(BirthCloudLostFlux(neb.spectrum_bc, bc_dust, dust), LAMBDA flux_bc :
         With(LinesAttenuated(neb.em_lines, dust), LAMBDA em :
         With(VAdd(neb.spectrum, bc_dust), LAMBDA combined :
         With(Arr([i \in 1..NGrid |->
                 TenToMinus(QDiv(QMul(dust.Av, A_cont[i]), <<5, 2>>))]),
              LAMBDA trans :
         With(VMul(combined, trans), LAMBDA dust_spectrum :
         With(QAdd(flux_bc, trapz(VSub(combined, dust_spectrum), wavelengths)),
              LAMBDA dust_flux :
         With(DustTemplate(dust), LAMBDA template :
             [bc_in |-> neb.spectrum_bc, bc_out |-> bc_dust,
              combined |-> combined, attenuated |-> dust_spectrum,
              dust_flux |-> dust_flux, em_lines |-> em,
              template |-> template,
              spectrum_bc |-> Some(VMul(bc_dust, trans)),
              spectrum |-> VAdd(dust_spectrum, VScale(dust_flux, template))]
         )))))))))
    ELSE With(VAdd(neb.spectrum, neb.spectrum_bc), LAMBDA combined :
             [bc_in |-> neb.spectrum_bc, bc_out |-> neb.spectrum_bc,
              combined |-> combined, attenuated |-> combined,
              dust_flux |-> QZero, em_lines |-> neb.em_lines,
              template |-> None,
              spectrum_bc |-> None, spectrum |-> combined])

(* Lines 318-332: the luminosity-to-flux factor.  3.086 * 10**24 and       *)
(* np.pi are carried by their whole parts, in units of 10**24 cm.          *)
MpcInCm == 3

Pi == 3

LumFlux(model_comp) ==
    IF model_comp.redshift > 0
    THEN With(QMul(Q(MpcInCm),
                   interp(Q(model_comp.redshift), z_array, ldist_at_z)),
              LAMBDA ldist_cm : QMul(Q(4 * Pi), QMul(ldist_cm, ldist_cm)))
    ELSE QOne

(* Lines 342-347: 3.826 * 10**33 erg/s, in units of 0.9565 * 10**33.       *)
SolarLum == 4

(* Lines 334, 337: the divisor of the spectra.                             *)
SpectrumDivisor(lum_flux, model_comp) ==
    QMul(lum_flux, QAdd(QOne, Q(model_comp.redshift)))

(* LineDivisor with the (1 + z) of the spectra.                            *)
LineDivisor_WithRedshift(lum_flux, model_comp) ==
    SpectrumDivisor(lum_flux, model_comp)

(* Line 339: the divisor of the line fluxes.                               *)
LineDivisor(lum_flux, model_comp) == lum_flux

(* Lines 22-84: the foreground absorber.  The powers of x and the          *)
(* exponentials are beyond bounded rationals, so the profile and exp(-tau) *)
(* are carried by rational stand-ins that keep what the pipeline depends   *)
(* on: the offset x is computed from the wavelength as the code computes   *)
(* it, the profile falls with |x|, and the transmission is 1 at tau = 0    *)
(* and falls with tau.  C_a and a are carried as 1, lamb to the nearest    *)
(* angstrom, and dl_D as a whole number of angstroms.                      *)
LyAlpha == 1216

DopplerWidth == 100

(* H(a, x), lines 41-46.                                                   *)
H(a, x) == QDiv(a, QAdd(QOne, QAbs(x)))

(* np.exp(-tau), line 84.                                                  *)
ExpMinus(tau) == QInv(QAdd(QOne, tau))

(* Line 80: x = (wl_mod / (zabs + 1.0) - lamb) / dl_D + 0.01               *)
AbsorberOffset(wl, zabs) ==
    QAdd(QDiv(QSub(QDiv(wl, Q(zabs + 1)), Q(LyAlpha)), Q(DopplerWidth)),
         <<1, 100>>)

(* addAbs(wl_mod, t, zabs): one transmission per wavelength.               *)
addAbs(wl_mod, t, zabs) ==
    Arr([i \in DOMAIN wl_mod |->
        ExpMinus(QMul(Q(t), H(QOne, AbsorberOffset(wl_mod[i], zabs))))])

(* Line 309: the wavelengths handed to addAbs.                             *)
DlaWavelengths(s) == VScale(Q(s.model_comp.redshift), QWavelengths)

(* Lines 307-312: the spectrum times the absorber transmission, when the   *)
(* key "dla" is present.                                                   *)
DlaStage(s, model_comp, spectrum) ==
    IF Has(model_comp, "dla")
    THEN With(DlaWavelengths(s), LAMBDA wl_mod :
         With(addAbs(wl_mod, s.model_comp.dla.t, s.model_comp.dla.zabs),
              LAMBDA trans :
             [ran |-> TRUE, wl_mod |-> wl_mod, trans |-> trans,
              spectrum |-> VMul(spectrum, trans)]))
    ELSE [ran |-> FALSE, spectrum |-> spectrum]

(* Lines 305-351: transmission, conversion to flux and the stores.         *)
FluxStage(s, model_comp, dst) ==
    With(model_comp.redshift, LAMBDA z :
    With(VMul(dst.spectrum, IgmTrans(z)), LAMBDA igm :
    With(DlaStage(s, model_comp, igm), LAMBDA dla :
    With(dla.spectrum, LAMBDA spec1 :
    With(IF s.dust_atten THEN Some(VMul(dst.spectrum_bc[1], IgmTrans(z)))
         ELSE None, LAMBDA bc1 :
    With(LumFlux(model_comp), LAMBDA lum_flux :
    With(VScale(Q(SolarLum),
                VDivS(spec1, SpectrumDivisor(lum_flux, model_comp))),
         LAMBDA spec2 :
    With(IF s.dust_atten
         THEN Some(VScale(Q(SolarLum),
                     VDivS(bc1[1], SpectrumDivisor(lum_flux, model_comp))))
         ELSE None, LAMBDA bc2 :
    With(VScale(Q(SolarLum),
                VDivS(dst.em_lines, LineDivisor(lum_flux, model_comp))),
         LAMBDA em2 :
        [igm_spectrum |-> igm, dla |-> dla,
         pre_spectrum |-> spec1, pre_bc |-> bc1, pre_lines |-> dst.em_lines,
         lum_flux |-> lum_flux, spectrum_bc |-> bc2,
         line_fluxes |-> [n \in Range(line_names) |->
                             em2[CHOOSE k \in 1..NLines : line_names[k] = n]],
         spectrum_full |-> spec2])))))))))

---------------------------------------------------------------------------
(* The remaining collaborators of update.                                  *)

(* Observed-frame wavelengths of the output grid (spec_wavs), the filter   *)
(* curves behind filt_list and the definitions in index_list.              *)
SpecWavs == <<930, 1850, 2790>>

FilterCurves == << <<1, 1, 0, 0, 0>>, <<0, 0, 1, 1, 1>> >>

IndexList == <<[name |-> "D1", feature |-> 1, continuum |-> 2],
               [name |-> "D2", feature |-> 2, continuum |-> 3]>>

(* self._calculate_spectrum(model_components): the full spectrum at the    *)
(* redshifted grid, resampled onto spec_wavs; rows of (wavelength, flux).  *)
CalculateSpectrum(spectrum_full, z, spec_wavs) ==
    With(Arr([i \in 1..NGrid |-> Q(wavelengths[i] * (1 + z))]),
         LAMBDA redshifted :
        Arr([j \in 1..Len(spec_wavs) |->
            <<Q(spec_wavs[j]),
              interp(Q(spec_wavs[j]), redshifted, spectrum_full)>>]))

(* self._calculate_photometry(redshift): one flux per filter.              *)
CalculatePhotometry(spectrum_full, z, filt_list) ==
    Arr([f \in 1..Len(filt_list) |->
        QDiv(QSum(Arr([i \in 1..NGrid |-> QMul(Q(filt_list[f][i]), spectrum_full[i])]),
                  NGrid),
             Q(1 + z))])

(* self._calculate_uvj_mags(): the three rest-frame bands of the full      *)
(* spectrum, carried as band fluxes.                                       *)
CalculateUvj(spectrum_full) ==
    <<QAdd(spectrum_full[1], spectrum_full[2]),
      QAdd(spectrum_full[3], spectrum_full[4]),
      spectrum_full[5]>>

(* measure_index(index, spectrum, redshift).                               *)
MeasureIndex(ind, spectrum, z) ==
    QMul(Q(1 + z), QSub(spectrum[ind.feature][2], spectrum[ind.continuum][2]))

---------------------------------------------------------------------------
(* update, step by step.  Each step maps the instance to the instance.     *)

(* Lines 124-127.                                                          *)
StoreComponents(s, model_components) ==
    SetAttr(SetAttr(s, "model_comp", model_components),
            "sfh_unphysical", SfhUnphysical(model_components))

(* Lines 137-138: the unphysical branch.                                   *)
ZeroSpectrum(s) ==
    SetAttr(SetAttr(s, "spectrum_full", Arr([i \in 1..NGrid |-> QZero])),
            "uvj", <<QZero, QZero, QZero>>)

(* Lines 290, 315, 318, 337, 345, 349, 351: what _calculate_full_spectrum  *)
(* stores on the instance.                                                 *)
StoreFull(s, flx) ==
    LET s1 == IF s.dust_atten
              THEN SetAttr(s, "spectrum_bc", flx.spectrum_bc[1]) ELSE s
    IN  SetAttr(SetAttr(SetAttr(s1, "lum_flux", flx.lum_flux),
                        "line_fluxes", flx.line_fluxes),
                "spectrum_full", flx.spectrum_full)

(* Lines 145-146.                                                          *)
StepSpectrum(s) ==
    IF s.spec_wavs # None
    THEN SetAttr(s, "spectrum",
                 CalculateSpectrum(s.spectrum_full, s.model_comp.redshift,
                                   s.spec_wavs[1]))
    ELSE s

(* StepAgnFull with an AGN model that keeps the array the last call        *)
(* attenuated in place instead of building a new one.                      *)
StepAgnFull_KeepsArray(s) ==
    IF s.agn
    THEN With(s.model_comp.redshift, LAMBDA z :
         With(VMul(IF Has(s, "agn_spectrum") THEN s.agn_spectrum
                   ELSE AgnSpectrum(s.model_comp.agn), IgmTrans(z)),
              LAMBDA agn_spec :
             SetAttr(SetAttr(s, "agn_spectrum", agn_spec),
                     "spectrum_full",
                     VAdd(s.spectrum_full, VDivS(agn_spec, Q(1 + z))))))
    ELSE s

(* Lines 149-154: the AGN spectrum, attenuated in place by the IGM, added  *)
(* to the full spectrum.                                                   *)
StepAgnFull(s) ==
    IF s.agn
    THEN With(s.model_comp.redshift, LAMBDA z :
         With(VMul(AgnSpectrum(s.model_comp.agn), IgmTrans(z)),
              LAMBDA agn_spec :
             SetAttr(SetAttr(s, "agn_spectrum", agn_spec),
                     "spectrum_full",
                     VAdd(s.spectrum_full, VDivS(agn_spec, Q(1 + z))))))
    ELSE s

(* Lines 156-166: the AGN spectrum interpolated onto spec_wavs and added   *)
(* to column 1 of the resampled spectrum.                                  *)
StepAgnSpectrum(s) ==
    IF s.agn /\ s.spec_wavs # None
    THEN With(s.model_comp.redshift + 1, LAMBDA zplus1 :
         With(Arr([i \in 1..NGrid |-> Q(wavelengths[i] * zplus1)]), LAMBDA xp :
         With(VDivS(s.agn_spectrum, Q(zplus1)), LAMBDA fp :
             SetAttr(s, "spectrum",
                 Arr([j \in 1..Len(s.spec_wavs[1]) |->
                     <<s.spectrum[j][1],
                       QAdd(s.spectrum[j][2],
                            interp(Q(s.spec_wavs[1][j]), xp, fp))>>])))))
    ELSE s

(* Lines 168-169.                                                          *)
StepPhotometry(s) ==
    IF s.filt_list # None
    THEN SetAttr(s, "photometry",
                 CalculatePhotometry(s.spectrum_full, s.model_comp.redshift,
                                     s.filt_list[1]))
    ELSE s

(* Lines 171-172.                                                          *)
StepUvj(s) ==
    IF ~s.sfh_unphysical
    THEN SetAttr(s, "uvj", CalculateUvj(s.spectrum_full))
    ELSE s

(* Lines 175-182.                                                          *)
StepIndices(s) ==
    IF s.index_list # None
    THEN SetAttr(SetAttr(s, "index_names",
                         Arr([i \in 1..Len(s.index_list[1]) |-> s.index_list[1][i].name])),
                 "indices",
                 Arr([i \in 1..Len(s.index_list[1]) |->
                     MeasureIndex(s.index_list[1][i], s.spectrum,
                                  s.model_comp.redshift)]))
    ELSE s

(* Observables with the AGN added to the full spectrum before that is     *)
(* resampled.                                                              *)
Observables_AgnBeforeResampling(s) ==
    StepIndices(StepUvj(StepPhotometry(StepAgnSpectrum(StepSpectrum(StepAgnFull(s))))))

(* Lines 145-182 in the order the code runs them.                          *)
Observables(s) ==
    StepIndices(StepUvj(StepPhotometry(StepAgnSpectrum(StepAgnFull(StepSpectrum(s))))))

(* Lines 130-143: the spectrum before the observables are derived.         *)
FullSpectrumBranch(s, flx) ==
    IF s.sfh_unphysical THEN ZeroSpectrum(s) ELSE StoreFull(s, flx)

(* The whole of update: the instance after the call, whether it raised,    *)
(* whether it warned, and the locals of _calculate_full_spectrum.          *)
update(s, model_components, cont_only, rm_line) ==
    With(StoreComponents(s, model_components), LAMBDA s1 :
    With(NebularStage(s1, model_components, cont_only, rm_line), LAMBDA neb :
    With(DustStage(s1, model_components, neb), LAMBDA dst :
    With(FluxStage(s1, model_components, dst), LAMBDA flx :
    With(FullSpectrumBranch(s1, flx), LAMBDA s2 :
        IF s1.sfh_unphysical
        THEN [self |-> Observables(s2), raised |-> "", warned |-> TRUE,
              loc |-> [stage |-> "zeroed", base |-> s2.spectrum_full]]
        ELSE IF neb.raises
        THEN [self |-> s1, raised |-> "ValueError", warned |-> FALSE,
              loc |-> [stage |-> "raised"]]
        ELSE [self |-> Observables(s2), raised |-> "", warned |-> FALSE,
              loc |-> [stage |-> "full", base |-> s2.spectrum_full,
                       neb |-> neb, dst |-> dst, flx |-> flx]])))))

---------------------------------------------------------------------------
(* The inputs: model_components dictionaries, built key by key.            *)

MaxZ == 2

MaxEta == 2

MaxAgn == 2

MaxColumn == 2

(* A key that is present when o holds a value and missing when o is None.  *)
Opt(key, o) == IF o = None THEN <<>> ELSE key :> o[1]

OptOf(S) == {None} \cup {Some(x) : x \in S}

DustDicts(Avs, Etas, Emission) ==
    {("Av" :> av) @@ Opt("eta", e) @@ em :
        av \in Avs, e \in Etas, em \in Emission}

NebularDicts(LogUs, Velshifts, Metallicities) ==
    {("logU" :> u) @@ Opt("velshift", v) @@ Opt("metallicity", m) :
        u \in LogUs, v \in Velshifts, m \in Metallicities}

AgnDicts(Fs) == {[f5100A |-> f] : f \in Fs}

DlaDicts(Ts, Zabs) == {[t |-> t, zabs |-> za] : t \in Ts, za \in Zabs}

ModelComps(Zs, Ages, Tbcs, Dusts, Nebulars, Agns) ==
    {("redshift" :> z) @@ ("exponential" :> [age |-> a, metallicity |-> 1])
       @@ Opt("t_bc", t) @@ Opt("dust", d) @@ Opt("nebular", n) @@ Opt("agn", g) :
        z \in Zs, a \in Ages, t \in Tbcs, d \in Dusts, n \in Nebulars, g \in Agns}

Calls(Comps, ContOnly, RmLines) ==
    [model_components : Comps, cont_only : ContOnly, rm_line : RmLines]

(* The calls of C, each with every "dla" entry of Dlas.                    *)
WithDla(C, Dlas) ==
    {[c EXCEPT !.model_components = @ @@ Opt("dla", d)] : c \in C, d \in Dlas}

(* The components of a dictionary: the constructor creates the dust,       *)
(* nebular and AGN models from the keys it is given, and update changes    *)
(* numerical values only.  "t_bc" and "dla" have no model object: each     *)
(* call looks the key up (lines 216, 307).                                 *)
Components(mc) == DOMAIN mc \ {"t_bc", "dla"}

---------------------------------------------------------------------------
(* Construction and the update action.                                     *)

(* The instance as the inherited constructor leaves it before it calls     *)
(* update: index_list brings its own output grid.                          *)
Blank(mc, spec_wavs, filt_list, index_list) ==
    [dust_atten |-> Has(mc, "dust"), nebular |-> Has(mc, "nebular"),
     agn |-> Has(mc, "agn"),
     spec_wavs |-> IF index_list # None THEN Some(SpecWavs) ELSE spec_wavs,
     filt_list |-> filt_list, index_list |-> index_list]

OutputOptions ==
    {<<sw, fl, il>> \in {None, Some(SpecWavs)} \X {None, Some(FilterCurves)}
                        \X {None, Some(IndexList)} : sw = None \/ il = None}

(* ExtendedModelGalaxy(model_components, ...): the constructor ends with   *)
(* update(model_components).                                               *)
Construct(C, Outputs) ==
    \E c \in C, o \in Outputs :
        \E r \in {update(Blank(c.model_components, o[1], o[2], o[3]),
                       c.model_components, FALSE, None)} :
            /\ self = r.self
            /\ args = [c EXCEPT !.cont_only = FALSE, !.rm_line = None]
            /\ raised = r.raised
            /\ warned = r.warned
            /\ loc = r.loc

(* galaxy.update(model_components, cont_only, rm_line)                     *)
Update(C) ==
    \E c \in C :
        /\ Components(c.model_components) = Components(self.model_comp)
        /\ \E r \in {update(self, c.model_components, c.cont_only, c.rm_line)} :
               /\ self' = r.self
               /\ args' = c
               /\ raised' = r.raised
               /\ warned' = r.warned
               /\ loc' = r.loc

(* Every configuration of the instance, physical and unphysical histories. *)
CallsAll ==
    Calls(ModelComps({0, 1}, {1, 8}, {None},
                     OptOf(DustDicts({<<5, 2>>}, {Some(Q(2))}, {<<>>})),
                     OptOf(NebularDicts({-3}, {None}, {None})),
                     OptOf(AgnDicts(1..MaxAgn))),
          BOOLEAN, {None, Some(<<"L3">>)})

Init == Construct(CallsAll, OutputOptions)

Next == Update(CallsAll)

Spec == Init /\ [][Next]_vars

---------------------------------------------------------------------------
(* Line removal: every rm_line shape, with and without a velocity shift.   *)

RmLines ==
    {None, Some(<<>>), Some(<<"L1">>), Some(<<"L2">>), Some(<<"L3">>),
     Some(<<"L4">>), Some(<<"XX">>), Some(<<"L3", "L3">>),
     Some(<<"L2", "L3">>), Some(<<"L1", "L3">>), Some(<<"L3", "XX">>)}

CallsLines ==
    Calls(ModelComps({1}, {1}, {None},
                     OptOf(DustDicts({<<5, 2>>}, {Some(Q(2))}, {<<>>})),
                     OptOf(NebularDicts({-3}, {None, Some(6000)}, {None})),
                     {None}),
          BOOLEAN, RmLines)

InitLines == Construct(CallsLines, {<<Some(SpecWavs), Some(FilterCurves), None>>})

NextLines == Update(CallsLines)

SpecLines == InitLines /\ [][NextLines]_vars

(* Dust: every optional key missing, and away from its default.            *)

EmissionKeys ==
    {<<>>, [qpah |-> Q(3)], [umin |-> Q(2), gamma |-> <<1, 50>>]}

CallsDust ==
    Calls(ModelComps({1}, {1}, {None, Some(<<1, 50>>)},
                     {Some(d) : d \in DustDicts({Q(0), <<5, 2>>},
                                                OptOf({Q(e) : e \in 1..MaxEta}),
                                                EmissionKeys)},
                     OptOf(NebularDicts({-3}, {None, Some(6000)}, {None})),
                     {None}),
          {FALSE}, {None, Some(<<"L2">>)})

InitDust == Construct(CallsDust, {<<Some(SpecWavs), Some(FilterCurves), None>>})

NextDust == Update(CallsDust)

SpecDust == InitDust /\ [][NextDust]_vars

(* Flux conversion: redshift zero, on and between the table's redshifts.   *)

CallsFlux ==
    Calls(ModelComps(0..MaxZ, {1}, {None},
                     OptOf(DustDicts({Q(0), <<5, 2>>}, {None, Some(Q(2))}, {<<>>})),
                     OptOf(NebularDicts({-3, -2}, {None}, {None, Some(2)})),
                     {None}),
          BOOLEAN, {None})

InitFlux == Construct(CallsFlux, {<<None, None, None>>})

NextFlux == Update(CallsFlux)

SpecFlux == InitFlux /\ [][NextFlux]_vars

(* Foreground absorber: missing, transparent (t = 0) and absorbing, at     *)
(* redshift zero and above.  Dust is transparent (Av = 0) and no output    *)
(* grid is requested, which keeps the rationals within 32 bits.            *)

CallsDla ==
    WithDla(Calls(ModelComps(0..MaxZ, {1, 2}, {None},
                             OptOf(DustDicts({Q(0)}, {None}, {<<>>})),
                             OptOf(NebularDicts({-3}, {None}, {None})),
                             {None}),
                  BOOLEAN, {None}),
            OptOf(DlaDicts(0..MaxColumn, {0, 1})))

InitDla == Construct(CallsDla, {<<None, None, None>>})

NextDla == Update(CallsDla)

SpecDla == InitDla /\ [][NextDla]_vars

---------------------------------------------------------------------------
(* Properties.                                                             *)

ZerosGrid == Arr([i \in 1..NGrid |-> QZero])

LastCall == update(self, args.model_components, args.cont_only, args.rm_line)

(* C1: an update whose star-formation history is unphysical returns        *)
(* without raising, warns, and leaves the full spectrum and the UVJ        *)
(* magnitudes all zero, whatever the instance is configured with.          *)
C1_UnphysicalZero ==
    self.sfh_unphysical =>
        /\ raised = ""
        /\ warned
        /\ self.spectrum_full = ZerosGrid
        /\ self.uvj = <<QZero, QZero, QZero>>

(* C1 without an AGN component: the same, and it holds.                    *)
C1_UnphysicalZeroNoAgn == ~self.agn => C1_UnphysicalZero

(* C3: after any sequence of calls the derived attributes are those a      *)
(* new instance would hold after the last call alone.                      *)
DerivedNames == {"spectrum_full", "spectrum_bc", "line_fluxes", "lum_flux", "uvj"}

Derived(s) == [k \in DerivedNames \cap DOMAIN s |-> s[k]]

Fresh ==
    update(Blank(args.model_components, self.spec_wavs, self.filt_list,
                 self.index_list),
           args.model_components, args.cont_only, args.rm_line)

C3_OnlyLastCall == raised = "" => Derived(self) = Derived(Fresh.self)

(* C3 for a last call with a physical history, where it holds.             *)
C3_OnlyLastCallPhysical == ~self.sfh_unphysical => C3_OnlyLastCall

(* C4: a second update with the same model parameters, cont_only and       *)
(* rm_line leaves every attribute of the instance as the first left it.    *)
C4_SecondCallSame ==
    /\ LastCall.self = self
    /\ LastCall.raised = raised
    /\ LastCall.warned = warned

C4_Witness ==
    /\ args.rm_line # None
    /\ self.agn /\ self.spec_wavs # None /\ self.filt_list # None
    /\ ~self.sfh_unphysical /\ raised = ""
    /\ self.agn_spectrum # ZerosGrid
    /\ \E j \in DOMAIN self.spectrum : self.spectrum[j][2] # QZero

(* C10: the resampled spectrum is the resampling of the full spectrum as   *)
(* it was before the AGN was added plus the interpolated AGN spectrum,     *)
(* once; photometry, UVJ and indices are taken from the spectra with the   *)
(* AGN contribution in them.                                               *)
C10_Order ==
    raised = "" =>
      LET z     == self.model_comp.redshift
          xp    == Arr([i \in 1..NGrid |-> Q(wavelengths[i] * (1 + z))])
          agnz  == IF self.agn THEN VDivS(self.agn_spectrum, Q(1 + z))
                   ELSE ZerosGrid
      IN  /\ self.spectrum_full = VAdd(loc.base, agnz)
          /\ self.spec_wavs # None =>
               \A j \in DOMAIN self.spectrum :
                   self.spectrum[j][2] =
                       QAdd(interp(Q(self.spec_wavs[1][j]), xp, loc.base),
                            interp(Q(self.spec_wavs[1][j]), xp, agnz))
          /\ self.filt_list # None =>
               self.photometry =
                   CalculatePhotometry(self.spectrum_full, z, self.filt_list[1])
          /\ ~self.sfh_unphysical => self.uvj = CalculateUvj(self.spectrum_full)
          /\ self.index_list # None =>
               \A i \in DOMAIN self.indices :
                   self.indices[i] =
                       MeasureIndex(self.index_list[1][i], self.spectrum, z)

C10_Witness ==
    /\ args.rm_line # None
    /\ self.agn /\ self.index_list # None /\ self.filt_list # None
    /\ ~self.sfh_unphysical /\ raised = ""
    /\ \E j \in DOMAIN self.spectrum :
          interp(Q(self.spec_wavs[1][j]),
                 Arr([i \in 1..NGrid |->
                        Q(wavelengths[i] * (1 + self.model_comp.redshift))]),
                 self.agn_spectrum) # QZero
    /\ \E i \in DOMAIN self.indices : self.indices[i] # QZero


(* C2: with the nebular stage run, each requested line whose shifted       *)
(* wavelength is nearest to an inner grid index i lowers the birth-cloud   *)
(* spectrum at i by line_flux / ((w[i+1] - w[i-1]) / 2); nothing else      *)
(* changes, and a line nearest to the first or last index changes nothing. *)
C2_Nearest(i, w) ==
    /\ \A j \in 1..NGrid :
          ~QLess(QAbs(QSub(Q(wavelengths[j]), w)), QAbs(QSub(Q(wavelengths[i]), w)))
    /\ \A j \in 1..(i - 1) :
          QLess(QAbs(QSub(Q(wavelengths[i]), w)), QAbs(QSub(Q(wavelengths[j]), w)))

C2_LineNumber(name) == CHOOSE k \in 1..NLines : line_names[k] = name

C2_LineRemoval ==
    (loc.stage = "full" /\ loc.neb.ran /\ args.rm_line # None) =>
      LET names == args.rm_line[1]
          v     == Get(args.model_components.nebular, "velshift", 0)
          w(n)  == QDiv(Q(line_wavs[C2_LineNumber(names[n])] * (300000 + v)),
                        Q(300000))
          drop(i) ==
              QSum(Arr([n \in 1..Len(names) |->
                      IF C2_Nearest(i, w(n)) /\ i # 1 /\ i # NGrid
                      THEN QDiv(loc.neb.em_lines[C2_LineNumber(names[n])],
                                <<wavelengths[i + 1] - wavelengths[i - 1], 2>>)
                      ELSE QZero]), Len(names))
      IN  \A i \in 1..NGrid :
              loc.neb.spectrum_bc[i] = QSub(loc.neb.bc_nebular[i], drop(i))

C2_Witness ==
    /\ loc.stage = "full" /\ loc.neb.ran
    /\ args.rm_line = Some(<<"L1", "L3">>)
    /\ ~Has(args.model_components.nebular, "velshift")
    /\ loc.neb.spectrum_bc[1] = loc.neb.bc_nebular[1]
    /\ QLess(loc.neb.spectrum_bc[3], loc.neb.bc_nebular[3])

(* C6: update never raises, whatever rm_line names.                        *)
C6_NeverRaises == raised = ""

(* C6 for names the line table holds: no raise.                            *)
C6_KnownNamesNeverRaise ==
    (args.rm_line # None /\ Range(args.rm_line[1]) \subseteq Range(line_names))
        => raised = ""

(* C9: with the nebular model off or cont_only set, the line fluxes are    *)
(* zero, the birth-cloud spectrum is the stellar one untouched, and        *)
(* rm_line changes nothing.                                                *)
C9_NebularSkipped ==
    (~self.sfh_unphysical /\ (~self.nebular \/ args.cont_only)) =>
        /\ raised = ""
        /\ \A n \in DOMAIN self.line_fluxes : self.line_fluxes[n] = QZero
        /\ loc.neb.spectrum_bc = loc.neb.stellar_bc
        /\ \A rm \in RmLines :
              update(self, args.model_components, args.cont_only, rm).self = self

C9_Witness ==
    /\ self.nebular /\ args.cont_only /\ raised = ""
    /\ args.rm_line = Some(<<"L3", "XX">>)
    /\ loc.neb.stellar_bc[1] # QZero
    /\ loc.neb.spectrum_bc[1] # QZero


(* C5: a call that leaves out t_bc, eta, qpah, umin, gamma or velshift     *)
(* gives what the call with that key at its documented default gives:      *)
(* the same attributes, the same lost flux, and no raise.                  *)
C5_Supplied(mc) ==
    (IF Has(mc, "t_bc") THEN {} ELSE {SetAttr(mc, "t_bc", <<1, 100>>)})
    \cup (IF Has(mc, "dust")
          THEN {SetAttr(mc, "dust", SetAttr(mc.dust, kv[1], kv[2])) :
                  kv \in {p \in {<<"eta", Q(1)>>, <<"qpah", Q(2)>>,
                                 <<"umin", Q(1)>>, <<"gamma", <<1, 100>>>>} :
                            ~Has(mc.dust, p[1])}}
          ELSE {})
    \cup (IF Has(mc, "nebular") /\ ~Has(mc.nebular, "velshift")
          THEN {SetAttr(mc, "nebular", SetAttr(mc.nebular, "velshift", 0))}
          ELSE {})

C5_Outputs(s) == [k \in DOMAIN s \ {"model_comp"} |-> s[k]]

C5_DefaultsSubstituted ==
    raised = "" =>
      \A m \in C5_Supplied(args.model_components) :
          \E r \in {update(self, m, args.cont_only, args.rm_line)} :
              /\ r.raised = ""
              /\ C5_Outputs(r.self) = C5_Outputs(self)
              /\ r.loc.dst.dust_flux = loc.dst.dust_flux
              /\ r.loc.neb.spectrum_bc = loc.neb.spectrum_bc

C5_Witness ==
    /\ raised = "" /\ self.dust_atten /\ self.nebular
    /\ DOMAIN args.model_components.dust = {"Av"}
    /\ args.model_components.dust.Av # QZero
    /\ ~Has(args.model_components, "t_bc")
    /\ ~Has(args.model_components.nebular, "velshift")
    /\ args.rm_line # None
    /\ loc.dst.dust_flux # QZero
    /\ loc.neb.spectrum_bc # loc.neb.bc_nebular

(* C8: the factor on the dust emission template is the flux the            *)
(* birth-cloud stage removed plus the flux the diffuse stage removed, so   *)
(* a template of unit integral adds exactly the flux attenuated away.      *)
C8_EnergyBalance ==
    (loc.stage = "full" /\ self.dust_atten) =>
      LET lost == QAdd(trapz(VSub(loc.dst.bc_in, loc.dst.bc_out), wavelengths),
                       trapz(VSub(loc.dst.combined, loc.dst.attenuated),
                             wavelengths))
      IN  /\ loc.dst.dust_flux = lost
          /\ loc.dst.spectrum =
                VAdd(loc.dst.attenuated, VScale(lost, loc.dst.template))
          /\ trapz(loc.dst.template, wavelengths) = QOne =>
                trapz(VSub(loc.dst.spectrum, loc.dst.attenuated), wavelengths)
                    = lost

C8_Witness ==
    /\ loc.stage = "full" /\ self.dust_atten
    /\ Has(args.model_components.dust, "eta")
    /\ trapz(VSub(loc.dst.bc_in, loc.dst.bc_out), wavelengths) # QZero
    /\ trapz(VSub(loc.dst.combined, loc.dst.attenuated), wavelengths) # QZero
    /\ trapz(loc.dst.template, wavelengths) = QOne

(* C7: at redshift 0 lum_flux is 1 and the spectra are divided by 1; at    *)
(* redshift > 0 lum_flux is 4 pi d_L^2 with d_L interpolated from the      *)
(* table, the spectrum and the birth-cloud spectrum are divided by         *)
(* lum_flux (1 + z), and the line fluxes by lum_flux alone.                *)
C7_FluxConversion ==
    loc.stage = "full" =>
      LET z   == self.model_comp.redshift
          d_L == QMul(Q(MpcInCm), interp(Q(z), z_array, ldist_at_z))
          div == QMul(self.lum_flux, Q(1 + z))
      IN  /\ z = 0 => self.lum_flux = QOne /\ div = QOne
          /\ z > 0 => self.lum_flux = QMul(Q(4 * Pi), QMul(d_L, d_L))
          /\ \A i \in 1..NGrid :
                QMul(loc.base[i], div)
                    = QMul(Q(SolarLum), loc.flx.pre_spectrum[i])
          /\ self.dust_atten =>
                \A i \in 1..NGrid :
                    QMul(self.spectrum_bc[i], div)
                        = QMul(Q(SolarLum), loc.flx.pre_bc[1][i])
          /\ \A k \in 1..NLines :
                QMul(self.line_fluxes[line_names[k]], self.lum_flux)
                    = QMul(Q(SolarLum), loc.flx.pre_lines[k])

C7_Witness ==
    /\ loc.stage = "full" /\ self.dust_atten
    /\ self.model_comp.redshift = 1
    /\ self.line_fluxes["L3"] # QZero
    /\ self.spectrum_bc[3] # QZero
    /\ self.spectrum_full[3] # QZero

(* C11: with a "dla" component, the spectrum after the IGM transmission    *)
(* is multiplied, before the conversion to flux, by the absorber           *)
(* transmission at each grid point's observed-frame wavelength, the rest   *)
(* wavelength times (1 + redshift), with the configured t and zabs.        *)
C11_Pipeline(wl_mod) ==
    LET mc  == args.model_components
        div == QMul(self.lum_flux, Q(1 + mc.redshift))
    IN  /\ loc.flx.igm_spectrum = VMul(loc.dst.spectrum, IgmTrans(mc.redshift))
        /\ loc.flx.pre_spectrum =
              VMul(loc.flx.igm_spectrum, addAbs(wl_mod, mc.dla.t, mc.dla.zabs))
        /\ \A i \in 1..NGrid :
              QMul(loc.base[i], div) = QMul(Q(SolarLum), loc.flx.pre_spectrum[i])

C11_DlaObservedFrame ==
    (loc.stage = "full" /\ Has(args.model_components, "dla")) =>
        C11_Pipeline(VScale(Q(1 + args.model_components.redshift), QWavelengths))

(* C11 as the code has it: the same pipeline with the transmission taken   *)
(* at the rest wavelength times the redshift.                              *)
C11_DlaRedshiftTimesWavelength ==
    (loc.stage = "full" /\ Has(args.model_components, "dla")) =>
        C11_Pipeline(VScale(Q(args.model_components.redshift), QWavelengths))

C11_Witness ==
    /\ loc.stage = "full" /\ Has(args.model_components, "dla")
    /\ args.model_components.dla.t > 0
    /\ args.model_components.redshift > 0
    /\ \E i \in 1..NGrid :
          /\ loc.flx.igm_spectrum[i] # QZero
          /\ loc.flx.pre_spectrum[i] # loc.flx.igm_spectrum[i]

=============================================================================
